---- MODULE Spec2Model ----
(***************************************************************************)
(* Flash-streaming sample playback engine of the Eurorack drum machine     *)
(* (firmware/src/main.cpp): four voices, each a ring buffer fed from a     *)
(* canonical 16-bit mono WAV file on flash, a mixer that sums and clamps   *)
(* one frame per tick, and the SD -> flash converter that creates the      *)
(* canonical files.                                                        *)
(***************************************************************************)
EXTENDS Integers, Sequences, FiniteSets, TLC

VARIABLES
  hw,             \* the SD card inserted, and whether storage can fail
  samplePlayers,  \* samplePlayers[i]: stream, sampleList, totalSamples, currentSampleIndex
  flash,          \* LittleFS: path -> file
  last,           \* the call that produced this state, and what it returned
  sched           \* where loop() stands, and the requests waiting for it

vars == <<hw, samplePlayers, flash, last, sched>>

---------------------------------------------------------------------------
(* Sizes.  The firmware's buffer is 2048 bytes (1024 samples) and its size  *)
(* cap 512 KB; the model keeps the code's arithmetic on scaled-down values: *)
(* a buffer of BufferSamples samples and a cap of MAX_FLASH_SAMPLE_SIZE     *)
(* bytes.                                                                   *)

NumVoices == 4

BufferSamples == 2

\* #define STREAM_BUFFER_SIZE: the buffer's size in bytes
STREAM_BUFFER_SIZE == 2 * BufferSamples

MAX_FLASH_SAMPLE_SIZE == 12

WavHeaderSize == 44

Voices == 0 .. (NumVoices - 1)

---------------------------------------------------------------------------
(* Integer conversions of the C code.                                      *)

Min(a, b) == IF a < b THEN a ELSE b

Max(a, b) == IF a > b THEN a ELSE b

\* (int16_t)(b0 | (b1 << 8))
LE16(b0, b1) ==
  LET u == b0 + 256 * b1
  IN  IF u >= 32768 THEN u - 65536 ELSE u

\* {(uint8_t)(s & 0xFF), (uint8_t)(s >> 8)} of an int16_t s
Bytes16(s) ==
  LET u == IF s < 0 THEN s + 65536 ELSE s
  IN  <<u % 256, u \div 256>>

\* C integer division, which truncates toward zero
CDiv(a, b) == IF a >= 0 THEN a \div b ELSE -((-a) \div b)

\* (int32_t)(b0 | b1 << 8 | b2 << 16); if (x & 0x800000) x |= 0xFF000000
SignExtend24(b0, b1, b2) ==
  LET u == b0 + 256 * b1 + 65536 * b2
  IN  IF u >= 8388608 THEN u - 16777216 ELSE u

\* assignment of an int to an int16_t
ToInt16(x) ==
  LET u == x % 65536
  IN  IF u >= 32768 THEN u - 65536 ELSE u

---------------------------------------------------------------------------
(* Files.  A WAV file is its 44-byte header, kept as the fields the code   *)
(* reads or writes, and the data bytes that follow it.                     *)

WavHeader(tags, channels, rate, bits, dataSize) ==
  [tags |-> tags, chunkSize |-> dataSize + 36, numChannels |-> channels,
   sampleRate |-> rate, bitsPerSample |-> bits, dataSize |-> dataSize]

NoHeader == WavHeader("", 0, 0, 0, 0)

\* a file that does not exist
NoFile == [exists |-> FALSE, headerBytes |-> 0, header |-> NoHeader, data |-> <<>>]

WavFile(header, data) ==
  [exists |-> TRUE, headerBytes |-> WavHeaderSize, header |-> header, data |-> data]

RECURSIVE SamplesToBytes(_)
SamplesToBytes(ss) ==
  IF ss = <<>> THEN <<>> ELSE Bytes16(Head(ss)) \o SamplesToBytes(Tail(ss))

\* a 16-bit mono source holding the samples ss
Mono16(rate, ss) == WavFile(WavHeader("RIFF", 1, rate, 16, 2 * Len(ss)), SamplesToBytes(ss))

\* the folder of each voice
folderName == [i \in Voices |->
  CASE i = 0 -> "kick" [] i = 1 -> "snare" [] i = 2 -> "hihat" [] OTHER -> "tom"]

Entry(name, file) == [name |-> name, file |-> file, isDirectory |-> FALSE]

\* a directory inside a sample folder
DirEntry(name) == [name |-> name, file |-> NoFile, isDirectory |-> TRUE]

\* An SD card: for each folder the entries in it, in directory order; whether
\* the storage of the device can fail (an open that returns no handle); and
\* whether SD.begin() succeeded.
KickCard ==
  [folders |-> [i \in Voices |->
      IF i = 0 THEN <<Entry("a.wav", Mono16(48000, <<20000, -20000, 7>>)),
                      Entry("b.wav", Mono16(48000, <<-11>>))>>
      ELSE <<>>],
   faulty |-> TRUE, sdCardWorking |-> TRUE]

MixCard ==
  [folders |-> [i \in Voices |->
      IF i \in {0, 1, 2} THEN <<Entry("a.wav", Mono16(44100, <<20000>>))>> ELSE <<>>],
   faulty |-> FALSE, sdCardWorking |-> TRUE]

LowCard ==
  [folders |-> [i \in Voices |->
      IF i = 1 THEN <<Entry("notes.txt", Mono16(48000, <<>>)), Entry(".b.wav", Mono16(48000, <<9>>)),
                      DirEntry("old.wav"), Entry("b.wav", Mono16(48000, <<-20000>>))>>
      ELSE IF i = 3 THEN <<Entry("b.wav", Mono16(48000, <<-20000>>))>>
      ELSE <<>>],
   faulty |-> FALSE, sdCardWorking |-> TRUE]

\* KickCard's files in a slot where SD.begin() fails
DeadCard == [KickCard EXCEPT !.sdCardWorking = FALSE]

Cards == {KickCard, MixCard, LowCard, DeadCard}

\* little-endian bytes of a 24-bit two's-complement sample
Bytes24(x) ==
  LET u == IF x < 0 THEN x + 16777216 ELSE x
  IN  <<u % 256, (u \div 256) % 256, u \div 65536>>

\* the data of a PCM file: the channel values vals, interleaved, each in
\* bits / 8 little-endian bytes (bits is 16 or 24)
RECURSIVE PcmBytes(_, _)
PcmBytes(bits, vals) ==
  IF vals = <<>> THEN <<>>
  ELSE (IF bits = 16 THEN Bytes16(Head(vals)) ELSE Bytes24(Head(vals)))
         \o PcmBytes(bits, Tail(vals))

\* a source file: a full 44-byte header declaring dataSize, and the data bytes
Source(tags, channels, bits, dataSize, data) ==
  WavFile(WavHeader(tags, channels, 48000, bits, dataSize), data)

\* a well-formed source: the header declares the bytes the file holds
Pcm(channels, bits, vals) ==
  Source("RIFF", channels, bits, (bits \div 8) * Len(vals), PcmBytes(bits, vals))

\* The sources the converter is checked on.  Every header has
\* bitsPerSample >= 8 and numChannels >= 1: with a smaller field the code
\* divides by zero at line 655.
StereoSources ==
  {Pcm(2, 16, <<1000, 2000, -1, -2, 32767, 32767>>),
   Pcm(2, 16, <<-32768, -32768, -32768, 32767, 1, 0>>),
   Pcm(2, 16, <<-1, 0, 3, 4, -3, -4>>),
   Pcm(2, 24, <<8388607, 8388607, -1, 0>>)}

Mono24Sources ==
  {Pcm(1, 24, <<8388607, -8388608, -1, 0>>),
   Pcm(1, 24, <<255, 256, -256, -257>>)}

Mono16Sources ==
  {Pcm(1, 16, <<20000, -20000, 7>>),
   Pcm(1, 16, <<-32768, 32767>>),
   \* no data
   Pcm(1, 16, <<>>),
   \* an empty LIST chunk follows the data, and the chunk size counts it
   [Source("RIFF", 1, 16, 2, PcmBytes(16, <<258>>) \o <<76, 73, 83, 84, 0, 0, 0, 0>>)
      EXCEPT !.header.chunkSize = 46],
   \* an odd data size declared
   Source("RIFF", 1, 16, 5, PcmBytes(16, <<258, 772>>) \o <<9>>)}

\* sources holding fewer data bytes than the header declares: one ending on
\* a sample boundary, one in the middle of a sample
ShortSources ==
  {Source("RIFF", 1, 16, 6, PcmBytes(16, <<258>>)),
   Source("RIFF", 1, 16, 4, PcmBytes(16, <<258>>) \o <<9>>),
   Source("RIFF", 2, 16, 8, PcmBytes(16, <<10, 20, 30>>))}

\* sources declaring more data than the cap (and holding it)
LargeSources ==
  {Pcm(1, 16, <<1, 2, 3, 4, 5, 6, 7>>),
   Pcm(1, 24, <<256, 512, 768, 1024, 1280>>),
   Pcm(2, 16, <<1, 1, 2, 2, 3, 3, 4, 4>>)}

\* sources of a format the header parser has no branch for, one with a
\* signature that is not RIFF/WAVE, and one that ends inside the header
OddSources ==
  {Source("RIFF", 1, 8, 2, <<128, 255>>),
   Source("RIFF", 1, 32, 8, <<1, 0, 0, 0, 2, 0, 0, 0>>),
   Source("RIFF", 3, 16, 6, PcmBytes(16, <<1, 2, 3>>)),
   Source("JUNK", 1, 16, 2, PcmBytes(16, <<258>>)),
   [Pcm(1, 16, <<>>) EXCEPT !.headerBytes = 20]}

Sources ==
  StereoSources \cup Mono24Sources \cup Mono16Sources \cup ShortSources
    \cup LargeSources \cup OddSources

\* an SD card holding one source, in the first voice's folder
SourceCard(file) ==
  [folders |-> [i \in Voices |-> IF i = 0 THEN <<Entry("a.wav", file)>> ELSE <<>>],
   faulty |-> FALSE, sdCardWorking |-> TRUE]

ConvCards == {SourceCard(file) : file \in Sources} \cup {KickCard}

\* "/" + folderName + "/" + filename
PathOf(i, filename) == <<folderName[i], filename>>


\* SD.open(sdPath): the file of that name in the voice's folder
SdFile(card, i, filename) ==
  LET es == card.folders[i]
      ks == {k \in 1 .. Len(es) : es[k].name = filename}
  IN  IF ks = {} THEN NoFile ELSE es[CHOOSE k \in ks : TRUE].file

\* the size of sampleList: String sampleList[16]
MaxSamplesPerFolder == 16

\* filename.startsWith(".")
Hidden(filename) == Len(filename) > 0 /\ SubSeq(filename, 1, 1) = "."

\* filename.toLowerCase(); filename.endsWith(".wav")
EndsWithWav(filename) ==
  LET n == Len(filename)
  IN  /\ n >= 4
      /\ SubSeq(filename, n - 3, n - 3) = "."
      /\ SubSeq(filename, n - 2, n - 2) \in {"w", "W"}
      /\ SubSeq(filename, n - 1, n - 1) \in {"a", "A"}
      /\ SubSeq(filename, n, n) \in {"v", "V"}

\* the while loop over a folder's entries: directories, hidden files and files
\* that are not .wav are passed over, and the loop stops at sampleCount = 16
RECURSIVE ScanFolder(_, _)
ScanFolder(entries, sampleList) ==
  IF entries = <<>> \/ Len(sampleList) >= MaxSamplesPerFolder THEN sampleList
  ELSE LET file == Head(entries)
       IN  IF ~file.isDirectory /\ ~Hidden(file.name) /\ EndsWithWav(file.name)
           THEN ScanFolder(Tail(entries), Append(sampleList, file.name))
           ELSE ScanFolder(Tail(entries), sampleList)

\* scanSampleFolders: sampleList and totalSamples of each player; nothing is
\* scanned when SD.begin() failed
ScanSampleFolders(card) ==
  [i \in Voices |->
     LET sampleList == IF card.sdCardWorking THEN ScanFolder(card.folders[i], <<>>)
                       ELSE <<>>
     IN  [sampleList |-> sampleList, totalSamples |-> Len(sampleList)]]

\* the flash paths a load can write with this card inserted
Paths(card) ==
  UNION {{PathOf(i, ScanSampleFolders(card)[i].sampleList[k]) :
            k \in 1 .. ScanSampleFolders(card)[i].totalSamples} : i \in Voices}

---------------------------------------------------------------------------
(* copyWAVToFlash: SD -> flash with conversion to 16-bit mono.             *)

\* bytes consumed by one sdFile.read of the conversion loop
ReadSize(bitsPerSample, numChannels) ==
  IF bitsPerSample = 16 THEN (IF numChannels = 1 THEN 2 ELSE 4)
  ELSE IF bitsPerSample = 24 THEN (IF numChannels = 1 THEN 3 ELSE 6)
  ELSE 0

\* ConvertFrame reading 16-bit mono samples high byte first
ConvertFrameBigEndian(bitsPerSample, numChannels, b) ==
  IF bitsPerSample = 16 THEN
    IF numChannels = 1 THEN LE16(b[2], b[1])
    ELSE ToInt16(CDiv(LE16(b[1], b[2]) + LE16(b[3], b[4]), 2))
  ELSE IF bitsPerSample = 24 THEN
    IF numChannels = 1 THEN ToInt16(SignExtend24(b[1], b[2], b[3]) \div 256)
    ELSE ToInt16(CDiv(SignExtend24(b[1], b[2], b[3]) + SignExtend24(b[4], b[5], b[6]), 2) \div 256)
  ELSE 0

\* ConvertFrame with 24-bit mono divided by 256 (toward zero) for the shift
ConvertFrameDivide(bitsPerSample, numChannels, b) ==
  IF bitsPerSample = 16 THEN
    IF numChannels = 1 THEN LE16(b[1], b[2])
    ELSE ToInt16(CDiv(LE16(b[1], b[2]) + LE16(b[3], b[4]), 2))
  ELSE IF bitsPerSample = 24 THEN
    IF numChannels = 1 THEN ToInt16(CDiv(SignExtend24(b[1], b[2], b[3]), 256))
    ELSE ToInt16(CDiv(SignExtend24(b[1], b[2], b[3]) + SignExtend24(b[4], b[5], b[6]), 2) \div 256)
  ELSE 0

\* ConvertFrame with 16-bit stereo halved by a shift (toward minus infinity)
ConvertFrameShift(bitsPerSample, numChannels, b) ==
  IF bitsPerSample = 16 THEN
    IF numChannels = 1 THEN LE16(b[1], b[2])
    ELSE ToInt16((LE16(b[1], b[2]) + LE16(b[3], b[4])) \div 2)
  ELSE IF bitsPerSample = 24 THEN
    IF numChannels = 1 THEN ToInt16(SignExtend24(b[1], b[2], b[3]) \div 256)
    ELSE ToInt16(CDiv(SignExtend24(b[1], b[2], b[3]) + SignExtend24(b[4], b[5], b[6]), 2) \div 256)
  ELSE 0

\* outputSample of one fully read frame b (ReadSize bytes)
ConvertFrame(bitsPerSample, numChannels, b) ==
  IF bitsPerSample = 16 THEN
    IF numChannels = 1 THEN LE16(b[1], b[2])
    ELSE ToInt16(CDiv(LE16(b[1], b[2]) + LE16(b[3], b[4]), 2))
  ELSE IF bitsPerSample = 24 THEN
    IF numChannels = 1 THEN ToInt16(SignExtend24(b[1], b[2], b[3]) \div 256)
    ELSE ToInt16(CDiv(SignExtend24(b[1], b[2], b[3]) + SignExtend24(b[4], b[5], b[6]), 2) \div 256)
  ELSE 0

\* the conversion loop: the bytes written after the header
RECURSIVE ConvertLoop(_, _, _, _, _, _)
ConvertLoop(bitsPerSample, numChannels, data, pos, samplesProcessed, totalSamples) ==
  IF ~(samplesProcessed < totalSamples /\ Len(data) - pos > 0) THEN <<>>
  ELSE
    LET n    == ReadSize(bitsPerSample, numChannels)
        got  == IF Len(data) - pos < n THEN Len(data) - pos ELSE n
        outputSample ==
          IF n > 0 /\ got = n
          THEN ConvertFrame(bitsPerSample, numChannels, SubSeq(data, pos + 1, pos + n))
          ELSE 0
    IN  Bytes16(outputSample)
          \o ConvertLoop(bitsPerSample, numChannels, data, pos + got,
                         samplesProcessed + 1, totalSamples)

\* copyWAVToFlash creating the destination before it opens the source
CopyWAVToFlashCreateFirst(sdFile, sdOpen, flashOpen, oldFlashFile) ==
  LET created == [exists |-> TRUE, headerBytes |-> 0, header |-> NoHeader, data |-> <<>>]
  IN
  IF ~flashOpen THEN [ok |-> FALSE, file |-> oldFlashFile]
  ELSE IF ~(sdOpen /\ sdFile.exists) THEN [ok |-> FALSE, file |-> created]
  ELSE IF sdFile.headerBytes # WavHeaderSize THEN [ok |-> FALSE, file |-> created]
  ELSE
    LET bitsPerSample == sdFile.header.bitsPerSample
        numChannels   == sdFile.header.numChannels
        dataSize      == IF sdFile.header.dataSize > MAX_FLASH_SAMPLE_SIZE
                         THEN MAX_FLASH_SAMPLE_SIZE ELSE sdFile.header.dataSize
        totalSamples  == (dataSize \div (bitsPerSample \div 8)) \div numChannels
        newDataSize   == totalSamples * 2
        header == [sdFile.header EXCEPT !.numChannels = 1, !.bitsPerSample = 16,
                                        !.dataSize = newDataSize,
                                        !.chunkSize = newDataSize + 36]
    IN  [ok |-> TRUE,
         file |-> WavFile(header,
                    ConvertLoop(bitsPerSample, numChannels, sdFile.data, 0, 0, totalSamples))]

\* the result of copyWAVToFlash: its return value and the destination file.
\* sdOpen / flashOpen: whether SD.open and LittleFS.open(.., "w") succeed.
CopyWAVToFlash(sdFile, sdOpen, flashOpen, oldFlashFile) ==
  IF ~(sdOpen /\ sdFile.exists) THEN [ok |-> FALSE, file |-> oldFlashFile]
  ELSE IF sdFile.headerBytes # WavHeaderSize THEN [ok |-> FALSE, file |-> oldFlashFile]
  ELSE
    LET bitsPerSample == sdFile.header.bitsPerSample
        numChannels   == sdFile.header.numChannels
        dataSize      == IF sdFile.header.dataSize > MAX_FLASH_SAMPLE_SIZE
                         THEN MAX_FLASH_SAMPLE_SIZE ELSE sdFile.header.dataSize
        totalSamples  == (dataSize \div (bitsPerSample \div 8)) \div numChannels
        newDataSize   == totalSamples * 2
        header == [sdFile.header EXCEPT !.numChannels = 1, !.bitsPerSample = 16,
                                        !.dataSize = newDataSize,
                                        !.chunkSize = newDataSize + 36]
    IN  IF ~flashOpen THEN [ok |-> FALSE, file |-> oldFlashFile]
        ELSE [ok |-> TRUE,
              file |-> WavFile(header,
                         ConvertLoop(bitsPerSample, numChannels, sdFile.data, 0, 0, totalSamples))]

---------------------------------------------------------------------------
(* The streaming state of a voice (struct StreamingSample).                *)

NoPath == <<"", "">>

\* File(): a handle that is not open
ClosedFile == [open |-> FALSE, path |-> NoPath, pos |-> 0]

\* initializeStreamBuffers: the malloc'ed buffer holds no written cell yet
InitStream ==
  [buffer |-> <<>>, bufferSize |-> STREAM_BUFFER_SIZE \div 2,
   bufferHead |-> 0, bufferTail |-> 0, samplesInBuffer |-> 0,
   flashFile |-> ClosedFile, totalSamples |-> 0, samplesPlayed |-> 0,
   playing |-> FALSE, loaded |-> FALSE, endOfFile |-> FALSE,
   filename |-> "", flashPath |-> NoPath]

\* the values a read of a never-written buffer cell may yield: the cell holds
\* what malloc returned, any int16_t
Indeterminate == -32768 .. 32767

\* bytes left after the handle's position
Available(file, handle) == WavHeaderSize + Len(file.data) - handle.pos

\* RefillLoop with the loop test off by one (<= for <)
RECURSIVE RefillLoopOffByOne(_, _)
RefillLoopOffByOne(stream, file) ==
  IF ~(stream.samplesInBuffer <= stream.bufferSize /\ ~stream.endOfFile) THEN stream
  ELSE
    LET avail == Available(file, stream.flashFile)
        at    == stream.flashFile.pos - WavHeaderSize
    IN  IF avail >= 2
        THEN RefillLoopOffByOne(
               [stream EXCEPT
                  !.buffer = (stream.bufferTail :> LE16(file.data[at + 1], file.data[at + 2]))
                               @@ stream.buffer,
                  !.bufferTail = (stream.bufferTail + 1) % stream.bufferSize,
                  !.samplesInBuffer = stream.samplesInBuffer + 1,
                  !.flashFile.pos = stream.flashFile.pos + 2], file)
        ELSE [stream EXCEPT !.endOfFile = TRUE, !.flashFile.pos = stream.flashFile.pos + avail]

\* RefillLoop reading the two bytes of a sample high byte first
RECURSIVE RefillLoopBigEndian(_, _)
RefillLoopBigEndian(stream, file) ==
  IF ~(stream.samplesInBuffer < stream.bufferSize /\ ~stream.endOfFile) THEN stream
  ELSE
    LET avail     == Available(file, stream.flashFile)
        bytesRead == IF avail >= 2 THEN 2 ELSE IF avail > 0 THEN avail ELSE 0
        at        == stream.flashFile.pos - WavHeaderSize
    IN  IF bytesRead = 2
        THEN RefillLoopBigEndian(
               [stream EXCEPT
                  !.buffer = (stream.bufferTail :> LE16(file.data[at + 2], file.data[at + 1]))
                               @@ stream.buffer,
                  !.bufferTail = (stream.bufferTail + 1) % stream.bufferSize,
                  !.samplesInBuffer = stream.samplesInBuffer + 1,
                  !.flashFile.pos = stream.flashFile.pos + 2], file)
        ELSE RefillLoopBigEndian(
               [stream EXCEPT !.endOfFile = TRUE,
                              !.flashFile.pos = stream.flashFile.pos + bytesRead], file)

\* refillStreamBuffer's while loop, on the file the handle is open on
RECURSIVE RefillLoop(_, _)
RefillLoop(stream, file) ==
  IF ~(stream.samplesInBuffer < stream.bufferSize /\ ~stream.endOfFile) THEN stream
  ELSE
    LET avail     == Available(file, stream.flashFile)
        bytesRead == IF avail >= 2 THEN 2 ELSE IF avail > 0 THEN avail ELSE 0
        at        == stream.flashFile.pos - WavHeaderSize
    IN  IF bytesRead = 2
        THEN RefillLoop(
               [stream EXCEPT
                  !.buffer = (stream.bufferTail :> LE16(file.data[at + 1], file.data[at + 2]))
                               @@ stream.buffer,
                  !.bufferTail = (stream.bufferTail + 1) % stream.bufferSize,
                  !.samplesInBuffer = stream.samplesInBuffer + 1,
                  !.flashFile.pos = stream.flashFile.pos + 2], file)
        ELSE RefillLoop(
               [stream EXCEPT !.endOfFile = TRUE,
                              !.flashFile.pos = stream.flashFile.pos + bytesRead], file)

\* refillStreamBuffer(playerIndex) on the voice's stream
RefillStreamBuffer(stream, fl) ==
  IF ~stream.flashFile.open \/ stream.endOfFile THEN stream
  ELSE RefillLoop(stream, fl[stream.flashFile.path])

\* triggerSample's body without the test of stream.loaded
TriggerStreamNoLoadedTest(stream, openOk, fl) ==
  LET reset == [stream EXCEPT !.samplesPlayed = 0, !.bufferHead = 0,
                              !.samplesInBuffer = 0, !.endOfFile = FALSE,
                              !.playing = TRUE]
  IN  IF openOk /\ stream.flashPath \in DOMAIN fl /\ fl[stream.flashPath].exists
      THEN RefillStreamBuffer(
             [reset EXCEPT !.flashFile =
                [open |-> TRUE, path |-> stream.flashPath, pos |-> WavHeaderSize]], fl)
      ELSE [reset EXCEPT !.flashFile = ClosedFile]

\* triggerSample's body without endOfFile = false
TriggerStreamKeepEof(stream, openOk, fl) ==
  IF ~stream.loaded THEN stream
  ELSE
    LET reset == [stream EXCEPT !.samplesPlayed = 0, !.bufferHead = 0,
                                !.samplesInBuffer = 0, !.playing = TRUE]
    IN  IF openOk /\ fl[stream.flashPath].exists
        THEN RefillStreamBuffer(
               [reset EXCEPT !.flashFile =
                  [open |-> TRUE, path |-> stream.flashPath, pos |-> WavHeaderSize]], fl)
        ELSE [reset EXCEPT !.flashFile = ClosedFile]

\* the body of triggerSample on the voice's stream, for 0 <= sampleIndex < 4;
\* openOk: whether LittleFS.open(flashPath, "r") can succeed
TriggerStream(stream, openOk, fl) ==
  IF ~stream.loaded THEN stream
  ELSE
    LET reset == [stream EXCEPT !.samplesPlayed = 0, !.bufferHead = 0,
                                !.samplesInBuffer = 0, !.endOfFile = FALSE,
                                !.playing = TRUE]
        opened == openOk /\ fl[stream.flashPath].exists
    IN  IF opened
        THEN RefillStreamBuffer(
               [reset EXCEPT !.flashFile =
                  [open |-> TRUE, path |-> stream.flashPath, pos |-> WavHeaderSize]], fl)
        ELSE [reset EXCEPT !.flashFile = ClosedFile]

\* triggerSample(sampleIndex)
TriggerSample(players, sampleIndex, openOk, fl) ==
  IF sampleIndex < 0 \/ sampleIndex >= NumVoices THEN players
  ELSE [players EXCEPT ![sampleIndex].stream =
          TriggerStream(players[sampleIndex].stream, openOk, fl)]

\* getNextSample without the samplesInBuffer == 0 test
GetNextSampleNoEmptyTest(stream, junk) ==
  IF ~stream.playing THEN [stream |-> stream, ret |-> 0]
  ELSE
    LET sample == IF stream.bufferHead \in DOMAIN stream.buffer
                  THEN stream.buffer[stream.bufferHead] ELSE junk
        popped == [stream EXCEPT
                     !.bufferHead = (stream.bufferHead + 1) % stream.bufferSize,
                     !.samplesInBuffer = stream.samplesInBuffer - 1,
                     !.samplesPlayed = stream.samplesPlayed + 1]
    IN  IF popped.samplesPlayed >= popped.totalSamples
        THEN [stream |-> [popped EXCEPT !.playing = FALSE, !.flashFile = ClosedFile],
              ret |-> sample]
        ELSE [stream |-> popped, ret |-> sample]

\* getNextSample reading the cell after it has advanced bufferHead
GetNextSampleReadAfterAdvance(stream, junk) ==
  IF ~stream.playing \/ stream.samplesInBuffer = 0 THEN [stream |-> stream, ret |-> 0]
  ELSE
    LET popped == [stream EXCEPT
                     !.bufferHead = (stream.bufferHead + 1) % stream.bufferSize,
                     !.samplesInBuffer = stream.samplesInBuffer - 1,
                     !.samplesPlayed = stream.samplesPlayed + 1]
        sample == IF popped.bufferHead \in DOMAIN stream.buffer
                  THEN stream.buffer[popped.bufferHead] ELSE junk
    IN  IF popped.samplesPlayed >= popped.totalSamples
        THEN [stream |-> [popped EXCEPT !.playing = FALSE, !.flashFile = ClosedFile],
              ret |-> sample]
        ELSE [stream |-> popped, ret |-> sample]

\* getNextSample without flashFile.close() when the sample is finished
GetNextSampleNoClose(stream, junk) ==
  IF ~stream.playing \/ stream.samplesInBuffer = 0 THEN [stream |-> stream, ret |-> 0]
  ELSE
    LET sample == IF stream.bufferHead \in DOMAIN stream.buffer
                  THEN stream.buffer[stream.bufferHead] ELSE junk
        popped == [stream EXCEPT
                     !.bufferHead = (stream.bufferHead + 1) % stream.bufferSize,
                     !.samplesInBuffer = stream.samplesInBuffer - 1,
                     !.samplesPlayed = stream.samplesPlayed + 1]
    IN  IF popped.samplesPlayed >= popped.totalSamples
        THEN [stream |-> [popped EXCEPT !.playing = FALSE], ret |-> sample]
        ELSE [stream |-> popped, ret |-> sample]

\* getNextSample counting a call on an empty buffer as a sample played
GetNextSampleCountsUnderrun(stream, junk) ==
  IF ~stream.playing THEN [stream |-> stream, ret |-> 0]
  ELSE IF stream.samplesInBuffer = 0
    THEN [stream |-> [stream EXCEPT !.samplesPlayed = stream.samplesPlayed + 1], ret |-> 0]
  ELSE
    LET sample == IF stream.bufferHead \in DOMAIN stream.buffer
                  THEN stream.buffer[stream.bufferHead] ELSE junk
        popped == [stream EXCEPT
                     !.bufferHead = (stream.bufferHead + 1) % stream.bufferSize,
                     !.samplesInBuffer = stream.samplesInBuffer - 1,
                     !.samplesPlayed = stream.samplesPlayed + 1]
    IN  IF popped.samplesPlayed >= popped.totalSamples
        THEN [stream |-> [popped EXCEPT !.playing = FALSE, !.flashFile = ClosedFile],
              ret |-> sample]
        ELSE [stream |-> popped, ret |-> sample]

\* getNextSample(playerIndex): the stream after the call and the value returned;
\* junk: what a never-written cell reads as
GetNextSample(stream, junk) ==
  IF ~stream.playing \/ stream.samplesInBuffer = 0 THEN [stream |-> stream, ret |-> 0]
  ELSE
    LET sample == IF stream.bufferHead \in DOMAIN stream.buffer
                  THEN stream.buffer[stream.bufferHead] ELSE junk
        popped == [stream EXCEPT
                     !.bufferHead = (stream.bufferHead + 1) % stream.bufferSize,
                     !.samplesInBuffer = stream.samplesInBuffer - 1,
                     !.samplesPlayed = stream.samplesPlayed + 1]
    IN  IF popped.samplesPlayed >= popped.totalSamples
        THEN [stream |-> [popped EXCEPT !.playing = FALSE, !.flashFile = ClosedFile],
              ret |-> sample]
        ELSE [stream |-> popped, ret |-> sample]

---------------------------------------------------------------------------
(* loadSampleToFlash.                                                      *)

\* loadSampleToFlash closing the flash file of every voice before it copies
LoadSampleToFlashCloseAll(players, fl, card, playerIndex, sampleIndex, sdOpen, flashOpen, infoOpen) ==
  IF playerIndex < 0 \/ playerIndex >= NumVoices
    THEN [players |-> players, flash |-> fl, ok |-> FALSE]
  ELSE IF sampleIndex < 0 \/ sampleIndex >= players[playerIndex].totalSamples
    THEN [players |-> players, flash |-> fl, ok |-> FALSE]
  ELSE
    LET filename  == players[playerIndex].sampleList[sampleIndex + 1]
        flashPath == PathOf(playerIndex, filename)
        closed    == [players[playerIndex].stream EXCEPT !.flashFile = ClosedFile]
        copy      == CopyWAVToFlash(SdFile(card, playerIndex, filename), sdOpen, flashOpen,
                                    fl[flashPath])
        bound     == [closed EXCEPT !.flashPath = flashPath, !.filename = filename,
                                    !.loaded = TRUE]
        info      == IF infoOpen
                     THEN [bound EXCEPT !.totalSamples = copy.file.header.dataSize \div 2]
                     ELSE bound
        others    == [j \in Voices |-> [players[j] EXCEPT !.stream.flashFile = ClosedFile]]
    IN  IF copy.ok
        THEN [players |-> [others EXCEPT ![playerIndex].stream = info,
                                         ![playerIndex].currentSampleIndex = sampleIndex],
              flash |-> [fl EXCEPT ![flashPath] = copy.file],
              ok |-> TRUE]
        ELSE [players |-> [others EXCEPT ![playerIndex].stream = closed],
              flash |-> [fl EXCEPT ![flashPath] = copy.file], ok |-> FALSE]

\* loadSampleToFlash closing the voice's flash file before it tests sampleIndex
LoadSampleToFlashCloseFirst(players, fl, card, playerIndex, sampleIndex, sdOpen, flashOpen, infoOpen) ==
  IF playerIndex < 0 \/ playerIndex >= NumVoices
    THEN [players |-> players, flash |-> fl, ok |-> FALSE]
  ELSE IF sampleIndex < 0 \/ sampleIndex >= players[playerIndex].totalSamples
    THEN [players |-> [players EXCEPT ![playerIndex].stream.flashFile = ClosedFile], flash |-> fl, ok |-> FALSE]
  ELSE
    LET filename  == players[playerIndex].sampleList[sampleIndex + 1]
        flashPath == PathOf(playerIndex, filename)
        closed    == [players[playerIndex].stream EXCEPT !.flashFile = ClosedFile]
        copy      == CopyWAVToFlash(SdFile(card, playerIndex, filename), sdOpen, flashOpen,
                                    fl[flashPath])
        bound     == [closed EXCEPT !.flashPath = flashPath, !.filename = filename,
                                    !.loaded = TRUE]
        info      == IF infoOpen
                     THEN [bound EXCEPT !.totalSamples = copy.file.header.dataSize \div 2]
                     ELSE bound
        others    == players
    IN  IF copy.ok
        THEN [players |-> [others EXCEPT ![playerIndex].stream = info,
                                         ![playerIndex].currentSampleIndex = sampleIndex],
              flash |-> [fl EXCEPT ![flashPath] = copy.file],
              ok |-> TRUE]
        ELSE [players |-> [others EXCEPT ![playerIndex].stream = closed],
              flash |-> [fl EXCEPT ![flashPath] = copy.file], ok |-> FALSE]

\* loadSampleToFlash marking the voice not loaded when the copy fails
LoadSampleToFlashUnloadOnFailure(players, fl, card, playerIndex, sampleIndex, sdOpen, flashOpen, infoOpen) ==
  IF playerIndex < 0 \/ playerIndex >= NumVoices
    THEN [players |-> players, flash |-> fl, ok |-> FALSE]
  ELSE IF sampleIndex < 0 \/ sampleIndex >= players[playerIndex].totalSamples
    THEN [players |-> players, flash |-> fl, ok |-> FALSE]
  ELSE
    LET filename  == players[playerIndex].sampleList[sampleIndex + 1]
        flashPath == PathOf(playerIndex, filename)
        closed    == [players[playerIndex].stream EXCEPT !.flashFile = ClosedFile]
        copy      == CopyWAVToFlash(SdFile(card, playerIndex, filename), sdOpen, flashOpen,
                                    fl[flashPath])
        bound     == [closed EXCEPT !.flashPath = flashPath, !.filename = filename,
                                    !.loaded = TRUE]
        info      == IF infoOpen
                     THEN [bound EXCEPT !.totalSamples = copy.file.header.dataSize \div 2]
                     ELSE bound
        others    == players
    IN  IF copy.ok
        THEN [players |-> [others EXCEPT ![playerIndex].stream = info,
                                         ![playerIndex].currentSampleIndex = sampleIndex],
              flash |-> [fl EXCEPT ![flashPath] = copy.file],
              ok |-> TRUE]
        ELSE [players |-> [others EXCEPT ![playerIndex].stream = [closed EXCEPT !.loaded = FALSE]],
              flash |-> [fl EXCEPT ![flashPath] = copy.file], ok |-> FALSE]

\* the value of the call: the players and the flash after it, and whether
\* copyWAVToFlash returned true.  sdOpen, flashOpen, infoOpen: whether
\* SD.open, LittleFS.open(.., "w") and LittleFS.open(.., "r") succeed.
LoadSampleToFlash(players, fl, card, playerIndex, sampleIndex, sdOpen, flashOpen, infoOpen) ==
  IF playerIndex < 0 \/ playerIndex >= NumVoices
    THEN [players |-> players, flash |-> fl, ok |-> FALSE]
  ELSE IF sampleIndex < 0 \/ sampleIndex >= players[playerIndex].totalSamples
    THEN [players |-> players, flash |-> fl, ok |-> FALSE]
  ELSE
    LET filename  == players[playerIndex].sampleList[sampleIndex + 1]
        flashPath == PathOf(playerIndex, filename)
        closed    == [players[playerIndex].stream EXCEPT !.flashFile = ClosedFile]
        copy      == CopyWAVToFlash(SdFile(card, playerIndex, filename), sdOpen, flashOpen,
                                    fl[flashPath])
        bound     == [closed EXCEPT !.flashPath = flashPath, !.filename = filename,
                                    !.loaded = TRUE]
        info      == IF infoOpen
                     THEN [bound EXCEPT !.totalSamples = copy.file.header.dataSize \div 2]
                     ELSE bound
    IN  IF copy.ok
        THEN [players |-> [players EXCEPT ![playerIndex].stream = info,
                                          ![playerIndex].currentSampleIndex = sampleIndex],
              flash |-> [fl EXCEPT ![flashPath] = copy.file],
              ok |-> TRUE]
        ELSE [players |-> [players EXCEPT ![playerIndex].stream = closed],
              flash |-> [fl EXCEPT ![flashPath] = copy.file], ok |-> FALSE]

---------------------------------------------------------------------------
(* The mixer: one pass of loop()'s frame body.                             *)

\* the sum cast to int16_t without the clamp
ClampWrap(mixedSample) == ToInt16(mixedSample)

\* mixedSample = max(-32767, min(32767, mixedSample))
Clamp(mixedSample) == Max(-32767, Min(32767, mixedSample))

\* for (j = 0; j < 4; j++) if (playing && loaded) mixedSample += getNextSample(j)
\* (junk[j]: what voice j's cell reads as if it was never written)
RECURSIVE MixVoices(_, _, _, _, _)
MixVoices(players, j, mixedSample, polled, junk) ==
  IF j >= NumVoices
    THEN [players |-> players, mixedSample |-> mixedSample, polled |-> polled]
  ELSE IF players[j].stream.playing /\ players[j].stream.loaded
    THEN LET r == GetNextSample(players[j].stream, junk[j])
         IN  MixVoices([players EXCEPT ![j].stream = r.stream], j + 1,
                       mixedSample + r.ret, Append(polled, r.ret), junk)
  ELSE MixVoices(players, j + 1, mixedSample, Append(polled, 0), junk)

\* the body of loop()'s frame loop: the players after it, the values the
\* voices returned, and the pair written by i2s.write16
MixFrame(players, junk) ==
  LET m == MixVoices(players, 0, 0, <<>>, junk)
  IN  [players |-> m.players, polled |-> m.polled,
       i2s |-> <<Clamp(m.mixedSample), Clamp(m.mixedSample)>>]

---------------------------------------------------------------------------
(* The state machine: the engine's calls in any order.                     *)

\* the outcomes of SD.open, LittleFS.open(.., "w") and LittleFS.open(.., "r")
\* during a load: all succeed, or (on faulty storage, in a call that gets as
\* far as opening a file) one of them fails
StorageOutcomes(faulty, players, playerIndex, sampleIndex) ==
  IF /\ faulty
     /\ playerIndex \in Voices
     /\ sampleIndex >= 0
     /\ sampleIndex < players[playerIndex].totalSamples
  THEN {<<TRUE, TRUE, TRUE>>, <<FALSE, TRUE, TRUE>>, <<TRUE, FALSE, TRUE>>, <<TRUE, TRUE, FALSE>>}
  ELSE {<<TRUE, TRUE, TRUE>>}

\* the outcomes of LittleFS.open(flashPath, "r") in triggerSample
OpenOutcomes(faulty, players, sampleIndex) ==
  IF faulty /\ sampleIndex \in Voices /\ players[sampleIndex].stream.loaded
  THEN BOOLEAN ELSE {TRUE}

\* what a call of getNextSample can find in a never-written cell: any value
\* when it reads buffer[bufferHead] and the cell was never written; no choice
\* (0) when it returns before the read or reads a written cell
Junk(stream) ==
  IF /\ stream.playing
     /\ stream.samplesInBuffer > 0
     /\ stream.bufferHead \notin DOMAIN stream.buffer
  THEN Indeterminate ELSE {0}

\* what the polls of one frame can find: a value for each voice's own cell
FrameJunk(players) ==
  {[j \in Voices |-> <<j0, j1, j2, j3>>[j + 1]] :
     j0 \in Junk(players[0].stream), j1 \in Junk(players[1].stream),
     j2 \in Junk(players[2].stream), j3 \in Junk(players[3].stream)}

\* the indices callers pass: the voices, and one index on each side of them
Indices == -1 .. NumVoices

\* the sample indices callers pass: those of the catalogue, and one on each side
SampleIndices == -1 .. 2

Call(op, v, ok, ret, polled, i2s) ==
  [op |-> op, v |-> v, ok |-> ok, ret |-> ret, polled |-> polled, i2s |-> i2s]

\* where loop() stands: the phase of the iteration, the frames mixed in it, the
\* buttons whose triggered flag is set or about to be set by updateButtons,
\* the characters waiting in the serial receive buffer, and currentMenuSample
InitSchedule ==
  [pc |-> "inputs", frames |-> 0, buttons |-> {}, nav |-> {}, serial |-> <<>>,
   menu |-> 0]

\* setup(): buffers allocated, the SD card scanned, nothing loaded
Init ==
  /\ hw \in Cards
  /\ samplePlayers = [i \in Voices |->
       [stream |-> InitStream, currentSampleIndex |-> 0,
        totalSamples |-> ScanSampleFolders(hw)[i].totalSamples,
        sampleList |-> ScanSampleFolders(hw)[i].sampleList]]
  /\ flash = [p \in Paths(hw) |-> NoFile]
  /\ last = Call("setup", 0, TRUE, 0, <<>>, <<>>)
  /\ sched = InitSchedule

\* loadSampleToFlash(playerIndex, sampleIndex)
Load(playerIndex, sampleIndex) ==
  \E io \in StorageOutcomes(hw.faulty, samplePlayers, playerIndex, sampleIndex) :
    LET r == LoadSampleToFlash(samplePlayers, flash, hw, playerIndex, sampleIndex,
                               io[1], io[2], io[3])
    IN  /\ samplePlayers' = r.players
        /\ flash' = r.flash
        /\ last' = Call("load", playerIndex, r.ok, 0, <<>>, <<>>)
        /\ UNCHANGED <<hw, sched>>

\* triggerSample(sampleIndex)
Trigger(sampleIndex) ==
  \E openOk \in OpenOutcomes(hw.faulty, samplePlayers, sampleIndex) :
    /\ samplePlayers' = TriggerSample(samplePlayers, sampleIndex, openOk, flash)
    /\ last' = Call("trigger", sampleIndex, TRUE, 0, <<>>, <<>>)
    /\ UNCHANGED <<hw, flash, sched>>

\* getNextSample(playerIndex)
TickOutput(playerIndex) ==
  \E junk \in Junk(samplePlayers[playerIndex].stream) :
    LET r == GetNextSample(samplePlayers[playerIndex].stream, junk)
    IN  /\ samplePlayers' = [samplePlayers EXCEPT ![playerIndex].stream = r.stream]
        /\ last' = Call("tick", playerIndex, TRUE, r.ret, <<>>, <<>>)
        /\ UNCHANGED <<hw, flash, sched>>

\* refillStreamBuffer(playerIndex)
Refill(playerIndex) ==
  /\ samplePlayers' = [samplePlayers EXCEPT ![playerIndex].stream =
                         RefillStreamBuffer(samplePlayers[playerIndex].stream, flash)]
  /\ last' = Call("refill", playerIndex, TRUE, 0, <<>>, <<>>)
  /\ UNCHANGED <<hw, flash, sched>>

\* one frame of loop(): poll, sum, clamp, i2s.write16(mixed, mixed)
Frame ==
  \E junk \in FrameJunk(samplePlayers) :
    LET m == MixFrame(samplePlayers, junk)
    IN  /\ samplePlayers' = m.players
        /\ last' = Call("frame", 0, TRUE, 0, m.polled, m.i2s)
        /\ UNCHANGED <<hw, flash, sched>>

Next ==
  \/ \E i \in Indices, k \in SampleIndices : Load(i, k)
  \/ \E i \in Indices : Trigger(i)
  \/ \E i \in Voices : TickOutput(i)
  \/ \E i \in Voices : Refill(i)
  \/ Frame

Spec == Init /\ [][Next]_vars

\* what the flash held before this boot at a path: nothing, or a canonical
\* file written by an earlier load (LittleFS.begin keeps the files)
PriorFile == Mono16(48000, <<5>>)

\* setup() with one of the converter's sources on the card
ConvInit ==
  /\ hw \in ConvCards
  /\ samplePlayers = [i \in Voices |->
       [stream |-> InitStream, currentSampleIndex |-> 0,
        totalSamples |-> ScanSampleFolders(hw)[i].totalSamples,
        sampleList |-> ScanSampleFolders(hw)[i].sampleList]]
  /\ \E prior \in {NoFile, PriorFile} : flash = [p \in Paths(hw) |-> prior]
  /\ last = Call("setup", 0, TRUE, 0, <<>>, <<>>)
  /\ sched = InitSchedule

ConvSpec == ConvInit /\ [][Next]_vars

\* the cards of the fair runs: faulty storage, a source with no data, one
\* shorter than its header declares, and a well-formed one
FairCards ==
  {KickCard, SourceCard(Pcm(1, 16, <<>>)),
   SourceCard(Source("RIFF", 1, 16, 6, PcmBytes(16, <<258>>))),
   SourceCard(Pcm(1, 16, <<20000, -20000, 7>>))}

FairInit ==
  /\ hw \in FairCards
  /\ samplePlayers = [i \in Voices |->
       [stream |-> InitStream, currentSampleIndex |-> 0,
        totalSamples |-> ScanSampleFolders(hw)[i].totalSamples,
        sampleList |-> ScanSampleFolders(hw)[i].sampleList]]
  /\ flash = [p \in Paths(hw) |-> NoFile]
  /\ last = Call("setup", 0, TRUE, 0, <<>>, <<>>)
  /\ sched = InitSchedule

\* loop() never stops: every voice is polled and refilled again and again
FairSpec ==
  /\ FairInit
  /\ [][Next]_vars
  /\ \A i \in Voices : WF_vars(TickOutput(i)) /\ WF_vars(Refill(i))
  /\ WF_vars(Frame)

---------------------------------------------------------------------------
(* loop(): the inputs, then the frames, then the refill pass.  The firmware *)
(* mixes 32 frames per iteration and refills below 512 of 1024 samples; the *)
(* model keeps the order 1 < FramesPerLoop <= REFILL_THRESHOLD < capacity   *)
(* and the capacity of twice the threshold on scaled-down values, with an   *)
(* asset longer than the buffer: an iteration mixes several frames, a voice *)
(* is above the threshold at some refill passes and below it at others.     *)

\* for (int i = 0; i < 32; i++)
FramesPerLoop == 2

\* #define REFILL_THRESHOLD 512
REFILL_THRESHOLD == 2

\* STREAM_BUFFER_SIZE / 2 in samples, at the loop's scale: twice the threshold
\* (1024 and 512 in the firmware)
LoopBufferSamples == 2 * REFILL_THRESHOLD

\* i < 1 in place of i < 32: the frame loop ends after its first frame
FrameLoopRunsOnce(frames) == frames < 1

\* i < 32: the frame loop goes on when `frames` frames are mixed
FrameLoopRuns(frames) == frames < FramesPerLoop

\* the requests let to wait at once: buttons down and characters received
MaxPending == 2

Pending(s) == Cardinality(s.buttons) + Cardinality(s.nav) + Len(s.serial)

\* buttons[0..3] and navButtons[0..2] (up, down, select)
TriggerButtons == 0 .. 3
NavButtons == 0 .. 2

\* the characters received: a trigger, down and select
SerialChars == {"1", "d", "s"}

\* a card for the loop: an asset longer than the buffer and an asset with no
\* samples under voice 0; storage never fails
LoopCard ==
  [folders |-> [i \in Voices |->
      IF i = 0 THEN <<Entry("a.wav", Mono16(48000, <<20000, -20000, 7, 300, -4>>)),
                      Entry("b.wav", Mono16(48000, <<>>))>>
      ELSE <<>>],
   faulty |-> FALSE, sdCardWorking |-> TRUE]

\* the engine as loop() sees it: the players, the flash and currentMenuSample
Engine(players, fl, menu) == [players |-> players, flash |-> fl, menu |-> menu]

\* if (totalSamples > 0) loadSampleToFlash(currentMenuSample, nextIndex)
SelectSample(e, card) ==
  IF e.players[e.menu].totalSamples > 0
  THEN LET nextIndex == (e.players[e.menu].currentSampleIndex + 1)
                          % e.players[e.menu].totalSamples
           r == LoadSampleToFlash(e.players, e.flash, card, e.menu, nextIndex,
                                  TRUE, TRUE, TRUE)
       IN  Engine(r.players, r.flash, e.menu)
  ELSE e

\* processButtonTriggers(), the trigger buttons: for (i = 0; i < 4; i++)
\* if (buttons[i].triggered) triggerSample(i)
RECURSIVE ProcessTriggerButtons(_, _, _)
ProcessTriggerButtons(e, i, buttons) ==
  IF i >= NumVoices THEN e
  ELSE IF i \in buttons
    THEN ProcessTriggerButtons(
           Engine(TriggerSample(e.players, i, TRUE, e.flash), e.flash, e.menu),
           i + 1, buttons)
  ELSE ProcessTriggerButtons(e, i + 1, buttons)

\* processButtonTriggers(), the navigation buttons: up, down, select
ProcessNavButtons(e, nav, card) ==
  LET up   == IF 0 \in nav THEN Engine(e.players, e.flash, (e.menu - 1 + 4) % 4) ELSE e
      down == IF 1 \in nav THEN Engine(up.players, up.flash, (up.menu + 1) % 4) ELSE up
  IN  IF 2 \in nav THEN SelectSample(down, card) ELSE down

\* processButtonTriggers()
ProcessButtonTriggers(e, buttons, nav, card) ==
  ProcessNavButtons(ProcessTriggerButtons(e, 0, buttons), nav, card)

\* switch (input) of loop()
SerialCommand(e, input, card) ==
  CASE input = "1" -> Engine(TriggerSample(e.players, 0, TRUE, e.flash), e.flash, e.menu)
    [] input = "2" -> Engine(TriggerSample(e.players, 1, TRUE, e.flash), e.flash, e.menu)
    [] input = "3" -> Engine(TriggerSample(e.players, 2, TRUE, e.flash), e.flash, e.menu)
    [] input = "4" -> Engine(TriggerSample(e.players, 3, TRUE, e.flash), e.flash, e.menu)
    [] input = "u" -> Engine(e.players, e.flash, (e.menu - 1 + 4) % 4)
    [] input = "d" -> Engine(e.players, e.flash, (e.menu + 1) % 4)
    [] input = "s" -> SelectSample(e, card)
    [] OTHER -> e

\* the first n characters of the receive buffer, read and obeyed in order
RECURSIVE SerialCommands(_, _, _, _)
SerialCommands(e, serial, n, card) ==
  IF n = 0 \/ serial = <<>> THEN [engine |-> e, serial |-> serial]
  ELSE SerialCommands(SerialCommand(e, Head(serial), card), Tail(serial), n - 1, card)

\* while (Serial.available()) in place of if (Serial.available())
SerialInputDrain(e, serial, card) == SerialCommands(e, serial, Len(serial), card)

\* if (Serial.available()) { char input = Serial.read(); switch (input) ... }
SerialInput(e, serial, card) == SerialCommands(e, serial, 1, card)

\* if (playing) in place of if (playing && samplesInBuffer < REFILL_THRESHOLD)
NeedsRefillWhenPlaying(stream) == stream.playing

\* the refill pass: for (i = 0; i < 4; i++)
\* if (playing && samplesInBuffer < REFILL_THRESHOLD) refillStreamBuffer(i)
NeedsRefill(stream) == stream.playing /\ stream.samplesInBuffer < REFILL_THRESHOLD

RefillPass(players, fl) ==
  [i \in Voices |->
     IF NeedsRefill(players[i].stream)
     THEN [players[i] EXCEPT !.stream = RefillStreamBuffer(players[i].stream, fl)]
     ELSE players[i]]

\* a 0/1 flag per voice, as a sequence
Flags(S) == [k \in 1 .. NumVoices |-> IF (k - 1) \in S THEN 1 ELSE 0]

\* initializeStreamBuffers at the loop's scale
LoopInitStream == [InitStream EXCEPT !.bufferSize = LoopBufferSamples]

\* setup() with the loop's card
LoopInit ==
  /\ hw = LoopCard
  /\ samplePlayers = [i \in Voices |->
       [stream |-> LoopInitStream, currentSampleIndex |-> 0,
        totalSamples |-> ScanSampleFolders(hw)[i].totalSamples,
        sampleList |-> ScanSampleFolders(hw)[i].sampleList]]
  /\ flash = [p \in Paths(hw) |-> NoFile]
  /\ last = Call("setup", 0, TRUE, 0, <<>>, <<>>)
  /\ sched = InitSchedule

\* a trigger button goes down: updateButtons will set buttons[i].triggered
PressButton(i) ==
  /\ i \notin sched.buttons
  /\ Pending(sched) < MaxPending
  /\ sched' = [sched EXCEPT !.buttons = @ \cup {i}]
  /\ last' = Call("request", 0, TRUE, 0, <<>>, <<>>)
  /\ UNCHANGED <<hw, samplePlayers, flash>>

\* a navigation button goes down: updateButtons will set navButtons[b].triggered
PressNav(b) ==
  /\ b \notin sched.nav
  /\ Pending(sched) < MaxPending
  /\ sched' = [sched EXCEPT !.nav = @ \cup {b}]
  /\ last' = Call("request", 0, TRUE, 0, <<>>, <<>>)
  /\ UNCHANGED <<hw, samplePlayers, flash>>

\* a character arrives on the serial port
Receive(input) ==
  /\ Pending(sched) < MaxPending
  /\ sched' = [sched EXCEPT !.serial = Append(@, input)]
  /\ last' = Call("request", 0, TRUE, 0, <<>>, <<>>)
  /\ UNCHANGED <<hw, samplePlayers, flash>>

\* the head of loop(): updateButtons(); processButtonTriggers(); the serial input
LoopInputs ==
  /\ sched.pc = "inputs"
  /\ LET b == ProcessButtonTriggers(Engine(samplePlayers, flash, sched.menu),
                                    sched.buttons, sched.nav, hw)
         s == SerialInput(b, sched.serial, hw)
     IN  /\ samplePlayers' = s.engine.players
         /\ flash' = s.engine.flash
         /\ sched' = [pc |-> "frames", frames |-> 0, buttons |-> {}, nav |-> {},
                      serial |-> s.serial, menu |-> s.engine.menu]
         /\ last' = Call("inputs", Len(sched.serial) - Len(s.serial), TRUE, 0,
                         Flags(sched.buttons), <<>>)
  /\ UNCHANGED hw

\* one pass of loop()'s frame loop
LoopFrame ==
  /\ sched.pc = "frames"
  /\ FrameLoopRuns(sched.frames)
  /\ \E junk \in FrameJunk(samplePlayers) :
       LET m == MixFrame(samplePlayers, junk)
       IN  /\ samplePlayers' = m.players
           /\ last' = Call("frame", 0, TRUE, 0, m.polled, m.i2s)
  /\ sched' = [sched EXCEPT !.frames = @ + 1,
                            !.pc = IF FrameLoopRuns(sched.frames + 1)
                                   THEN "frames" ELSE "refill"]
  /\ UNCHANGED <<hw, flash>>

\* the tail of loop(): the refill pass, and back to the head
LoopRefill ==
  /\ sched.pc = "refill"
  /\ samplePlayers' = RefillPass(samplePlayers, flash)
  /\ sched' = [sched EXCEPT !.pc = "inputs", !.frames = 0]
  /\ last' = Call("refills", 0, TRUE, 0,
                  Flags({i \in Voices : NeedsRefill(samplePlayers[i].stream)}), <<>>)
  /\ UNCHANGED <<hw, flash>>

LoopNext ==
  \/ \E i \in TriggerButtons : PressButton(i)
  \/ \E b \in NavButtons : PressNav(b)
  \/ \E input \in SerialChars : Receive(input)
  \/ LoopInputs
  \/ LoopFrame
  \/ LoopRefill

LoopSpec == LoopInit /\ [][LoopNext]_vars

---------------------------------------------------------------------------
(* Properties.                                                             *)

Stream(i) == samplePlayers[i].stream

\* sample k (from 0) of the data stored in a canonical file
StoredSample(file, k) == LE16(file.data[2 * k + 1], file.data[2 * k + 2])

\* the number of samples stored in a canonical file
StoredCount(file) == Len(file.data) \div 2

\* C1: in every reachable state and for every voice, 0 <= samplesInBuffer <=
\* bufferSize, and bufferHead and bufferTail are in [0, bufferSize).
C1_RingBufferBounds ==
  \A i \in Voices :
    /\ Stream(i).samplesInBuffer >= 0
    /\ Stream(i).samplesInBuffer <= Stream(i).bufferSize
    /\ Stream(i).bufferHead \in 0 .. (Stream(i).bufferSize - 1)
    /\ Stream(i).bufferTail \in 0 .. (Stream(i).bufferSize - 1)

\* a refill has topped up a partly drained buffer to capacity, with the head
\* advanced past cell 0
C1_Witness ==
  /\ last.op = "refill"
  /\ Stream(last.v).samplesInBuffer = Stream(last.v).bufferSize
  /\ Stream(last.v).bufferHead # 0
  /\ Stream(last.v).samplesPlayed > 0

\* the value voice i returned in the call that produced this state
Returned(i) ==
  IF last.op = "tick" /\ last.v = i THEN last.ret
  ELSE IF last.op = "frame" THEN last.polled[i + 1]
  ELSE 0

\* the step is a getNextSample call on voice i that popped a sample
Popped(i) ==
  /\ \/ last'.op = "tick" /\ last'.v = i
     \/ last'.op = "frame"
  /\ Stream(i)'.samplesPlayed = Stream(i).samplesPlayed + 1

\* C2: after a trigger of a loaded voice, the n-th sample popped (n = 0, 1, ..)
\* is sample n of the bound asset's file, for as long as the handle the trigger
\* opened stays open (no load in between, and the voice has not completed).
C2_RestartFromSampleZero ==
  [][\A i \in Voices :
       (Popped(i) /\ Stream(i).flashFile.open)
         => Returned(i)' = StoredSample(flash[Stream(i).flashPath], Stream(i).samplesPlayed)]_vars

\* C3: in every reachable state bufferTail = (bufferHead + samplesInBuffer) mod
\* bufferSize, and the samplesInBuffer cells from bufferHead on hold the
\* samples read from the file and not yet popped, in file order.
C3_RingBufferValidity ==
  \A i \in Voices :
    /\ Stream(i).bufferTail =
         (Stream(i).bufferHead + Stream(i).samplesInBuffer) % Stream(i).bufferSize
    /\ Stream(i).flashFile.open =>
         \A k \in 0 .. (Stream(i).samplesInBuffer - 1) :
           LET cell == (Stream(i).bufferHead + k) % Stream(i).bufferSize
           IN  /\ cell \in DOMAIN Stream(i).buffer
               /\ Stream(i).buffer[cell] =
                    StoredSample(flash[Stream(i).flashPath], Stream(i).samplesPlayed + k)

\* C4: in every reachable state a voice that is playing is loaded, holds an
\* open storage handle, and has samplesPlayed <= totalSamples.
C4_PlayingInvariant ==
  \A i \in Voices :
    Stream(i).playing =>
      /\ Stream(i).loaded
      /\ Stream(i).flashFile.open
      /\ Stream(i).samplesPlayed <= Stream(i).totalSamples

\* the step is a getNextSample call on voice i
Ticked(i) ==
  \/ last'.op = "tick" /\ last'.v = i
  \/ last'.op = "frame"

\* C5: a getNextSample step takes a voice out of Playing exactly when it makes
\* samplesPlayed equal to totalSamples, and the handle is closed after it.
C5_VoiceCompletion ==
  [][\A i \in Voices :
       (Ticked(i) /\ Stream(i).playing) =>
         /\ ~Stream(i)'.playing =>
              /\ Stream(i)'.samplesPlayed = Stream(i)'.totalSamples
              /\ Stream(i)'.samplesPlayed = Stream(i).samplesPlayed + 1
              /\ ~Stream(i)'.flashFile.open
         /\ (/\ Stream(i)'.samplesPlayed = Stream(i).samplesPlayed + 1
             /\ Stream(i)'.samplesPlayed = Stream(i)'.totalSamples) => ~Stream(i)'.playing]_vars

\* C6: a getNextSample call on a playing voice whose buffer is empty returns 0
\* and leaves the voice's stream (playing, head, count, cursor, handle) as it
\* was; so do all later calls until a refill, trigger or load.
C6_Underrun ==
  [][\A i \in Voices :
       (Ticked(i) /\ Stream(i).playing /\ Stream(i).samplesInBuffer = 0)
         => /\ Returned(i)' = 0
            /\ Stream(i)' = Stream(i)]_vars

\* a call has underrun in mid-playback: the handle is open, samples were
\* played, the buffer is empty and the call returned 0
C6_Witness ==
  /\ last.op = "tick"
  /\ last.ret = 0
  /\ Stream(last.v).playing
  /\ Stream(last.v).flashFile.open
  /\ Stream(last.v).samplesInBuffer = 0
  /\ Stream(last.v).samplesPlayed > 0
  /\ Stream(last.v).samplesPlayed < Stream(last.v).totalSamples

RECURSIVE SumSeq(_)
SumSeq(q) == IF q = <<>> THEN 0 ELSE Head(q) + SumSeq(Tail(q))

\* C7: the frame written by a tick is the sum of the values the voices
\* returned, limited to [-32767, 32767], the same on both channels.
C7_MixerClamp ==
  last.op = "frame" =>
    LET sum == SumSeq(last.polled)
    IN  /\ Len(last.polled) = NumVoices
        /\ Len(last.i2s) = 2
        /\ last.i2s[1] = last.i2s[2]
        /\ sum > 32767 => last.i2s[1] = 32767
        /\ sum < -32767 => last.i2s[1] = -32767
        /\ (sum >= -32767 /\ sum <= 32767) => last.i2s[1] = sum

\* three voices each returned +20000 and the frame is 32767 on both channels
C7_Witness ==
  /\ last.op = "frame"
  /\ last.polled = <<20000, 20000, 20000, 0>>
  /\ last.i2s = <<32767, 32767>>

\* C8: after a load whose conversion succeeded the voice is loaded, not
\* playing, holds no open handle and has samplesPlayed = 0.
C8_LoadLeavesLoaded ==
  (last.op = "load" /\ last.ok) =>
    /\ Stream(last.v).loaded
    /\ ~Stream(last.v).playing
    /\ ~Stream(last.v).flashFile.open
    /\ Stream(last.v).samplesPlayed = 0

\* C9: after a trigger of a loaded voice the voice is playing with
\* samplesPlayed = 0, its handle is open at byte 44 + 2 * samplesInBuffer,
\* endOfFile is set only if the initial fill has read the whole file, and the
\* buffer holds the first min(bufferSize, samples stored) samples of the file
\* from bufferHead on.
C9_TriggerPostState ==
  (last.op = "trigger" /\ last.v \in Voices /\ Stream(last.v).loaded) =>
    LET s    == Stream(last.v)
        file == flash[s.flashPath]
    IN  /\ s.playing
        /\ s.samplesPlayed = 0
        /\ s.endOfFile => s.samplesInBuffer = StoredCount(file)
        /\ s.flashFile.open
        /\ s.flashFile.pos = WavHeaderSize + 2 * s.samplesInBuffer
        /\ s.samplesInBuffer = Min(s.bufferSize, StoredCount(file))
        /\ \A k \in 0 .. (s.samplesInBuffer - 1) :
             LET cell == (s.bufferHead + k) % s.bufferSize
             IN  cell \in DOMAIN s.buffer /\ s.buffer[cell] = StoredSample(file, k)

\* C10: a trigger with an index outside the voices, or of a voice that is not
\* loaded, changes no voice and no file.
C10_TriggerNotLoaded ==
  [][(last'.op = "trigger" /\ (last'.v \notin Voices \/ ~Stream(last'.v).loaded))
       => UNCHANGED <<samplePlayers, flash>>]_vars

\* a voice that is not loaded was triggered while another voice plays
C10_Witness ==
  /\ last.op = "trigger"
  /\ last.v \in Voices
  /\ ~Stream(last.v).loaded
  /\ ~Stream(last.v).playing
  /\ \E j \in Voices : Stream(j).playing

\* an index outside the voices was triggered
C10_WitnessRange ==
  /\ last.op = "trigger"
  /\ last.v \notin Voices
  /\ \E j \in Voices : Stream(j).playing

\* the step is a refillStreamBuffer call on voice i
Refilled(i) == last'.op = "refill" /\ last'.v = i

\* the step is a triggerSample call on voice i
Triggered(i) == last'.op = "trigger" /\ last'.v = i

\* C11: a refill of a voice whose endOfFile is set reads nothing and changes
\* nothing of the voice; a refill that leaves the buffer short of full has seen
\* a short read and set endOfFile; endOfFile is cleared only by a trigger of the
\* voice, and is set after a trigger only if the initial fill read the file to
\* its end.
C11_EndOfDataLatch ==
  [][\A i \in Voices :
       /\ (Refilled(i) /\ Stream(i).endOfFile) => Stream(i)' = Stream(i)
       /\ (Refilled(i) /\ Stream(i).flashFile.open /\ ~Stream(i).endOfFile) =>
            IF Stream(i)'.endOfFile
            THEN Stream(i)'.flashFile.pos =
                   WavHeaderSize + Len(flash[Stream(i).flashFile.path].data)
            ELSE Stream(i)'.samplesInBuffer = Stream(i)'.bufferSize
       /\ (Stream(i).endOfFile /\ ~Stream(i)'.endOfFile) => Triggered(i)
       /\ (Triggered(i) /\ Stream(i).loaded /\ Stream(i)'.endOfFile) =>
            /\ Stream(i)'.flashFile.open
            /\ Stream(i)'.flashFile.pos =
                 WavHeaderSize + Len(flash[Stream(i)'.flashFile.path].data)]_vars

\* a refill was called on a voice in mid-playback whose endOfFile is set and
\* whose buffer is not full
C11_Witness ==
  /\ last.op = "refill"
  /\ Stream(last.v).endOfFile
  /\ Stream(last.v).flashFile.open
  /\ Stream(last.v).playing
  /\ Stream(last.v).samplesPlayed > 0
  /\ Stream(last.v).samplesInBuffer < Stream(last.v).bufferSize

\* the call that produced this state is a triggerSample of voice i
JustTriggered(i) == last.op = "trigger" /\ last.v = i

\* the call that produced this state is a loadSampleToFlash of voice i
JustLoaded(i) == last.op = "load" /\ last.v = i

\* C12: with the loop's ticks and refills weakly fair, a voice that is playing
\* and is not triggered (or loaded) again is eventually not playing.
C12_NoVoicePlaysForever ==
  \A i \in Voices :
    Stream(i).playing ~> (~Stream(i).playing \/ JustTriggered(i) \/ JustLoaded(i))

\* the SD file a loaded voice is bound to
SourceOf(i) == SdFile(hw, i, Stream(i).filename)

\* the header declares a format the converter has a branch for
Supported(header) ==
  header.bitsPerSample \in {16, 24} /\ header.numChannels \in {1, 2}

\* C13: a load succeeds only on a source that declares 16 or 24 bits and 1 or
\* 2 channels, and no voice is bound to a source of another format.
C13_UnsupportedRejected ==
  /\ (last.op = "load" /\ last.ok) => Supported(SourceOf(last.v).header)
  /\ \A i \in Voices : Stream(i).loaded => Supported(SourceOf(i).header)

\* C14: a load succeeds only from a source whose header carries the RIFF/WAVE
\* signature, and no file on flash was written from a header without it (the
\* converter copies the signature bytes as they are).
C14_SignatureValidated ==
  /\ (last.op = "load" /\ last.ok) => SourceOf(last.v).header.tags = "RIFF"
  /\ \A p \in DOMAIN flash : flash[p].exists => flash[p].header.tags = "RIFF"

\* the flash file a loaded voice is bound to
Canonical(i) == flash[Stream(i).flashPath]

\* C15: after a successful load of a 16- or 24-bit, 1- or 2-channel source
\* that declares more data than MAX_FLASH_SAMPLE_SIZE, the canonical file
\* holds exactly MAX_FLASH_SAMPLE_SIZE bytes of sample data and its header's
\* data-size field says so.
C15_Truncation ==
  (/\ last.op = "load" /\ last.ok
   /\ Supported(SourceOf(last.v).header)
   /\ SourceOf(last.v).header.dataSize > MAX_FLASH_SAMPLE_SIZE)
    => /\ Len(Canonical(last.v).data) = MAX_FLASH_SAMPLE_SIZE
       /\ Canonical(last.v).header.dataSize = MAX_FLASH_SAMPLE_SIZE

\* C16: after a successful load the canonical file's header declares 1
\* channel, 16 bits and as many data bytes as the file holds after the header,
\* and (when the load could read the size back) the voice's totalSamples is
\* the number of samples stored.
C16_HeaderConsistency ==
  (last.op = "load" /\ last.ok) =>
    /\ Canonical(last.v).header.numChannels = 1
    /\ Canonical(last.v).header.bitsPerSample = 16
    /\ Canonical(last.v).header.dataSize = Len(Canonical(last.v).data)
    /\ ~hw.faulty => Stream(last.v).totalSamples = StoredCount(Canonical(last.v))

\* the header declares 16-bit mono data within the cap
Mono16WithinCap(header) ==
  /\ header.bitsPerSample = 16 /\ header.numChannels = 1
  /\ header.dataSize <= MAX_FLASH_SAMPLE_SIZE

\* the whole 16-bit samples a source holds within its declared data size
WholeSamples16(src) == Min(src.header.dataSize \div 2, Len(src.data) \div 2)

\* C17 as stated: after a successful load of a 16-bit mono source within the
\* cap the canonical file's data are the source's samples, byte for byte and
\* in the same number, and its header equals the source's header.
C17_PassthroughAsStated ==
  (last.op = "load" /\ last.ok /\ Mono16WithinCap(SourceOf(last.v).header)) =>
    LET src == SourceOf(last.v)
    IN  /\ Canonical(last.v).data = SubSeq(src.data, 1, 2 * WholeSamples16(src))
        /\ Canonical(last.v).header = src.header

\* C17, amended: after a successful load of a 16-bit mono source within the
\* cap the canonical file's data are the whole samples the source holds within
\* its declared size, byte for byte, followed by one zero sample if the source
\* ends inside a declared sample; its header is the source's header with the
\* data size rounded down to an even number and the chunk size set to that
\* plus 36.
C17_Passthrough ==
  (last.op = "load" /\ last.ok /\ Mono16WithinCap(SourceOf(last.v).header)) =>
    LET src     == SourceOf(last.v)
        n       == src.header.dataSize \div 2
        w       == WholeSamples16(src)
        partial == w < n /\ Len(src.data) % 2 = 1
    IN  /\ Canonical(last.v).data =
             SubSeq(src.data, 1, 2 * w) \o (IF partial THEN <<0, 0>> ELSE <<>>)
        /\ Canonical(last.v).header =
             [src.header EXCEPT !.dataSize = 2 * n, !.chunkSize = 2 * n + 36]

\* a three-sample 16-bit mono source was loaded and the canonical file is
\* the source, header and data
C17_Witness ==
  /\ last.op = "load" /\ last.ok
  /\ SourceOf(last.v) = Pcm(1, 16, <<20000, -20000, 7>>)
  /\ Canonical(last.v) = SourceOf(last.v)

\* the samples stored in a canonical file, in order
Stored(file) == [k \in 1 .. StoredCount(file) |-> StoredSample(file, k - 1)]

\* the value of byte k of frame f of a source whose frames are size bytes long
FrameByte(src, size, f, k) == src.data[size * f + k]

\* the two's-complement value of a 24-bit little-endian sample
Signed24(b0, b1, b2) ==
  IF b2 >= 128 THEN (b0 + 256 * b1 + 65536 * b2) - 16777216
  ELSE b0 + 256 * b1 + 65536 * b2

\* C18: after a successful load of a 24-bit mono source, every stored sample
\* whose three source bytes were read is the floor of the signed 24-bit value
\* divided by 256: 256 * out <= x < 256 * out + 256, with out a 16-bit value.
C18_Shift24To16 ==
  (/\ last.op = "load" /\ last.ok
   /\ SourceOf(last.v).header.bitsPerSample = 24
   /\ SourceOf(last.v).header.numChannels = 1) =>
    LET src == SourceOf(last.v)
        out == Stored(Canonical(last.v))
    IN  \A f \in 0 .. (Len(out) - 1) :
          3 * f + 3 <= Len(src.data) =>
            LET x == Signed24(FrameByte(src, 3, f, 1), FrameByte(src, 3, f, 2),
                              FrameByte(src, 3, f, 3))
            IN  /\ out[f + 1] \in -32768 .. 32767
                /\ 256 * out[f + 1] <= x
                /\ x < 256 * out[f + 1] + 256

\* the 24-bit source 0x7FFFFF, 0x800000, 0xFFFFFF, 0 was loaded and the
\* canonical file holds 0x7FFF, 0x8000 (-32768), -1, 0
C18_Witness ==
  /\ last.op = "load" /\ last.ok
  /\ SourceOf(last.v).header.bitsPerSample = 24
  /\ SourceOf(last.v).data =
       <<255, 255, 127,  0, 0, 128,  255, 255, 255,  0, 0, 0>>
  /\ Stored(Canonical(last.v)) = <<32767, -32768, -1, 0>>

\* C19: after a successful load of a 16-bit stereo source, every stored
\* sample whose pair was read is (L + R) / 2 rounded toward zero, for sums of
\* either sign, and is a 16-bit value.
C19_StereoDownmix ==
  (/\ last.op = "load" /\ last.ok
   /\ SourceOf(last.v).header.bitsPerSample = 16
   /\ SourceOf(last.v).header.numChannels = 2) =>
    LET src == SourceOf(last.v)
        out == Stored(Canonical(last.v))
    IN  \A f \in 0 .. (Len(out) - 1) :
          4 * f + 4 <= Len(src.data) =>
            LET L == LE16(FrameByte(src, 4, f, 1), FrameByte(src, 4, f, 2))
                R == LE16(FrameByte(src, 4, f, 3), FrameByte(src, 4, f, 4))
                o == out[f + 1]
            IN  /\ o \in -32768 .. 32767
                /\ L + R >= 0 => (2 * o <= L + R /\ L + R <= 2 * o + 1)
                /\ L + R < 0 => (2 * o - 1 <= L + R /\ L + R <= 2 * o)

\* the stereo source (1000, 2000), (-1, -2), (32767, 32767) was loaded and
\* the canonical file holds 1500, -1, 32767
C19_Witness ==
  /\ last.op = "load" /\ last.ok
  /\ SourceOf(last.v) = Pcm(2, 16, <<1000, 2000, -1, -2, 32767, 32767>>)
  /\ Stored(Canonical(last.v)) = <<1500, -1, 32767>>

\* the step is a loadSampleToFlash call that did not load
LoadFailed == last'.op = "load" /\ ~last'.ok

\* C20: a load that fails leaves every file on flash as it was, and a load
\* succeeds only if the source exists and holds a full 44-byte header.
C20_EarlyFailureLeavesFlash ==
  [][/\ LoadFailed => flash' = flash
     /\ (last'.op = "load" /\ last'.ok) =>
          /\ SdFile(hw, last'.v, samplePlayers'[last'.v].stream.filename).exists
          /\ SdFile(hw, last'.v, samplePlayers'[last'.v].stream.filename).headerBytes = WavHeaderSize]_vars

\* a load of a source that ends inside its header has failed, and the file
\* an earlier boot left at its flash path is still there
C20_Witness ==
  /\ last.op = "load" /\ ~last.ok /\ last.v = 0
  /\ Len(hw.folders[0]) = 1
  /\ hw.folders[0][1].file.headerBytes < WavHeaderSize
  /\ flash[PathOf(0, hw.folders[0][1].name)] = PriorFile

\* a load has failed on faulty storage with the canonical file of an earlier
\* load in place
C20_WitnessOpen ==
  /\ last.op = "load" /\ ~last.ok /\ last.v = 0
  /\ hw.faulty
  /\ Stream(0).loaded
  /\ Canonical(0).exists

\* the step is a call on one voice: load, trigger, getNextSample or refill
VoiceCall == last'.op \in {"load", "trigger", "tick", "refill"}

\* C21: a load, trigger, getNextSample or refill of voice i, whatever its
\* outcome, leaves every other voice's record as it was, and a frame can
\* still be mixed from the state it leaves.
C21_VoiceIsolation ==
  [][VoiceCall =>
       /\ \A j \in Voices : j # last'.v => samplePlayers'[j] = samplePlayers[j]
       /\ Len(MixFrame(samplePlayers', [j \in Voices |-> 0]).i2s) = 2]_vars

\* voice 0 was loaded while voice 1 was streaming with samples buffered
C21_Witness ==
  /\ last.op = "load" /\ last.ok /\ last.v = 0
  /\ Stream(1).playing
  /\ Stream(1).flashFile.open
  /\ Stream(1).samplesInBuffer > 0

\* C22: a getNextSample call on a playing voice with a non-empty buffer
\* returns buffer[bufferHead], advances bufferHead by one modulo bufferSize,
\* takes one from samplesInBuffer, adds one to samplesPlayed and leaves
\* bufferTail, endOfFile, totalSamples, the buffer and the binding as they
\* were; a call on a voice that is not playing returns 0 and changes nothing.
C22_PopStep ==
  [][\A i \in Voices :
       Ticked(i) =>
         /\ (Stream(i).playing /\ Stream(i).samplesInBuffer > 0) =>
              /\ Stream(i).bufferHead \in DOMAIN Stream(i).buffer =>
                   Returned(i)' = Stream(i).buffer[Stream(i).bufferHead]
              /\ Stream(i)'.bufferHead = (Stream(i).bufferHead + 1) % Stream(i).bufferSize
              /\ Stream(i)'.samplesInBuffer = Stream(i).samplesInBuffer - 1
              /\ Stream(i)'.samplesPlayed = Stream(i).samplesPlayed + 1
              /\ Stream(i)'.bufferTail = Stream(i).bufferTail
              /\ Stream(i)'.endOfFile = Stream(i).endOfFile
              /\ Stream(i)'.totalSamples = Stream(i).totalSamples
              /\ Stream(i)'.buffer = Stream(i).buffer
              /\ Stream(i)'.flashPath = Stream(i).flashPath
              /\ Stream(i)'.filename = Stream(i).filename
              /\ Stream(i)'.loaded = Stream(i).loaded
         /\ ~Stream(i).playing => (Returned(i)' = 0 /\ Stream(i)' = Stream(i))]_vars

\* a call popped -20000 from cell 1 of a buffer in mid-playback
C22_Witness ==
  /\ last.op = "tick" /\ last.ret = -20000
  /\ Stream(last.v).playing
  /\ Stream(last.v).samplesPlayed = 2
  /\ Stream(last.v).bufferHead = 2 % Stream(last.v).bufferSize

\* C23: a refill of a voice with an open handle and endOfFile not set ends
\* with the buffer full or endOfFile set, has written the next samples of the
\* file, in order, to the cells from bufferTail on and advanced bufferTail and
\* the file position past them, and leaves bufferHead, samplesPlayed, playing,
\* loaded and totalSamples as they were; a refill of a voice with no open
\* handle or with endOfFile set changes nothing.
C23_RefillStep ==
  [][\A i \in Voices :
       Refilled(i) =>
         IF Stream(i).flashFile.open /\ ~Stream(i).endOfFile
         THEN LET s    == Stream(i)
                  t    == Stream(i)'
                  k    == t.samplesInBuffer - s.samplesInBuffer
                  at   == (s.flashFile.pos - WavHeaderSize) \div 2
                  file == flash[s.flashFile.path]
              IN  /\ t.samplesInBuffer = t.bufferSize \/ t.endOfFile
                  /\ k >= 0
                  /\ \A j \in 0 .. (k - 1) :
                       LET cell == (s.bufferTail + j) % s.bufferSize
                       IN  /\ cell \in DOMAIN t.buffer
                           /\ t.buffer[cell] = StoredSample(file, at + j)
                  /\ t.bufferTail = (s.bufferTail + k) % s.bufferSize
                  /\ t.flashFile.open
                  /\ t.flashFile.pos >= s.flashFile.pos + 2 * k
                  /\ t.flashFile.pos <= s.flashFile.pos + 2 * k + 1
                  /\ t.bufferHead = s.bufferHead
                  /\ t.samplesPlayed = s.samplesPlayed
                  /\ t.playing = s.playing
                  /\ t.loaded = s.loaded
                  /\ t.totalSamples = s.totalSamples
         ELSE Stream(i)' = Stream(i)]_vars

\* a refill in mid-playback has read the last sample (7) of a three-sample
\* file into the drained buffer and then met the end of the file
C23_Witness ==
  /\ last.op = "refill"
  /\ Stream(last.v).flashFile.open
  /\ Stream(last.v).endOfFile
  /\ Stream(last.v).samplesPlayed = 2
  /\ Stream(last.v).samplesInBuffer = 1
  /\ Stream(last.v).bufferHead \in DOMAIN Stream(last.v).buffer
  /\ Stream(last.v).buffer[Stream(last.v).bufferHead] = 7

\* the step is a loadSampleToFlash call on voice i
LoadCalled(i) == last'.op = "load" /\ last'.v = i

\* C24: a voice's handle is open only while the voice is playing; it goes
\* from closed to open only in a trigger of the voice, and from open to closed
\* only in the getNextSample call that ends the playback, in a load of the
\* voice, or in a trigger of it (which closes the handle before it reopens).
C24_HandleLifecycle ==
  /\ [](\A i \in Voices : Stream(i).flashFile.open => Stream(i).playing)
  /\ [][\A i \in Voices :
          /\ (~Stream(i).flashFile.open /\ Stream(i)'.flashFile.open) => Triggered(i)
          /\ (Stream(i).flashFile.open /\ ~Stream(i)'.flashFile.open) =>
               \/ Triggered(i)
               \/ LoadCalled(i)
               \/ Ticked(i) /\ ~Stream(i)'.playing]_vars

\* a voice has played its three samples to the end: it is loaded, not
\* playing, and its handle is closed
C24_Witness ==
  /\ last.op = "tick"
  /\ Stream(last.v).loaded
  /\ ~Stream(last.v).playing
  /\ ~Stream(last.v).flashFile.open
  /\ Stream(last.v).samplesPlayed = 3
  /\ Stream(last.v).totalSamples = 3

\* C26: from every reachable state, loadSampleToFlash with a voice index
\* outside 0..3, or a sample index outside the voice's catalogue, returns
\* with every voice (its handle included) and every file as they were,
\* whatever the storage would have answered.
C26_UnresolvableLoad ==
  \A i \in Indices, k \in SampleIndices, sdOpen \in BOOLEAN,
     flashOpen \in BOOLEAN, infoOpen \in BOOLEAN :
    (i \notin Voices \/ k < 0 \/ k >= samplePlayers[i].totalSamples) =>
      LoadSampleToFlash(samplePlayers, flash, hw, i, k, sdOpen, flashOpen, infoOpen)
        = [players |-> samplePlayers, flash |-> flash, ok |-> FALSE]

\* a load with a voice index outside 0..3 has returned while a voice streams
C26_Witness ==
  /\ last.op = "load" /\ ~last.ok /\ last.v \notin Voices
  /\ \E j \in Voices : Stream(j).playing /\ Stream(j).flashFile.open

\* a load of a voice with an empty catalogue has returned while another
\* voice streams
C26_WitnessSample ==
  /\ last.op = "load" /\ ~last.ok /\ last.v \in Voices
  /\ samplePlayers[last.v].totalSamples = 0
  /\ \E j \in Voices : Stream(j).playing /\ Stream(j).flashFile.open

\* C27: a load that fails leaves the voice exactly as it was: binding,
\* loaded, playing, cursor, buffer and handle.
C27_FailedLoadPreservesVoice ==
  [][LoadFailed => samplePlayers' = samplePlayers]_vars

\* C29: in every reachable state a voice whose handle is open has read
\* samplesPlayed + samplesInBuffer samples since its trigger: the handle is at
\* byte 44 + 2 * (samplesPlayed + samplesInBuffer).
C29_SampleConservation ==
  \A i \in Voices :
    Stream(i).flashFile.open =>
      Stream(i).flashFile.pos =
        WavHeaderSize + 2 * (Stream(i).samplesPlayed + Stream(i).samplesInBuffer)

\* a call has underrun in mid-playback with the file at byte 44 + 2 * 2, and
\* neither the cursor nor the position moved
C29_Witness ==
  /\ last.op = "tick" /\ last.ret = 0
  /\ Stream(last.v).playing
  /\ Stream(last.v).flashFile.open
  /\ Stream(last.v).samplesInBuffer = 0
  /\ Stream(last.v).samplesPlayed = 2
  /\ Stream(last.v).flashFile.pos = WavHeaderSize + 4

\* C30: a playing voice is loaded, and no step takes a voice's loaded flag
\* from true to false.
C30_BindingMonotone ==
  /\ [](\A i \in Voices : Stream(i).playing => Stream(i).loaded)
  /\ [][\A i \in Voices : Stream(i).loaded => Stream(i)'.loaded]_vars

\* a load of a loaded voice has failed and the voice is still loaded
C30_Witness ==
  /\ last.op = "load" /\ ~last.ok /\ last.v \in Voices
  /\ hw.faulty
  /\ Stream(last.v).loaded
  /\ samplePlayers[last.v].totalSamples > 0

\* the steps of loop(), told by where the schedule stands before and after
InputsStep == sched.pc = "inputs" /\ sched'.pc # "inputs"
FrameStep == sched.pc = "frames" /\ sched'.frames # sched.frames
RefillStep == sched.pc = "refill" /\ sched'.pc # "refill"

\* a step in which requests only arrive
ArrivalStep == sched'.pc = sched.pc /\ sched'.frames = sched.frames

\* the head of loop() applies every button that is down: a triggered button of
\* a loaded voice restarts the voice, a lone select loads the next sample of
\* the menu's voice (when no serial command touches the menu in the same pass)
ButtonsApplied ==
  /\ sched'.buttons = {} /\ sched'.nav = {}
  /\ sched'.frames = 0
  /\ \A i \in sched.buttons :
       Stream(i).loaded => Stream(i)'.playing /\ Stream(i)'.samplesPlayed = 0
  /\ ( /\ sched.nav = {2}
       /\ samplePlayers[sched.menu].totalSamples > 0
       /\ (sched.serial = <<>> \/ Head(sched.serial) = "1") )
     => /\ samplePlayers'[sched.menu].stream.loaded
        /\ samplePlayers'[sched.menu].currentSampleIndex =
             (samplePlayers[sched.menu].currentSampleIndex + 1)
               % samplePlayers[sched.menu].totalSamples

\* the head of loop() reads and obeys the oldest character received, and leaves
\* the others in the receive buffer
OneCharacterApplied ==
  /\ sched'.serial = IF sched.serial = <<>> THEN <<>> ELSE Tail(sched.serial)
  /\ (sched.serial # <<>> /\ Head(sched.serial) = "1" /\ Stream(0).loaded)
     => Stream(0)'.playing /\ Stream(0)'.samplesPlayed = 0
  /\ (sched.serial # <<>> /\ Head(sched.serial) = "d" /\ sched.nav = {})
     => sched'.menu = (sched.menu + 1) % 4

\* a frame polls each Playing and Loaded voice once and touches nothing else
FramePolls ==
  /\ sched.frames < FramesPerLoop
  /\ sched'.frames = sched.frames + 1
  /\ sched'.pc = IF sched'.frames = FramesPerLoop THEN "refill" ELSE "frames"
  /\ last'.op = "frame"
  /\ flash' = flash
  /\ sched'.buttons = sched.buttons /\ sched'.nav = sched.nav
  /\ sched'.serial = sched.serial /\ sched'.menu = sched.menu
  /\ \A i \in Voices : \E junk \in Junk(Stream(i)) :
       Stream(i)' = IF Stream(i).playing /\ Stream(i).loaded
                    THEN GetNextSample(Stream(i), junk).stream
                    ELSE Stream(i)

\* the refill pass comes after the last frame and calls refillStreamBuffer on
\* the voices that are Playing below the threshold, and on no other
RefillsBelowThreshold ==
  /\ sched.frames = FramesPerLoop
  /\ sched'.pc = "inputs"
  /\ flash' = flash
  /\ \A i \in Voices :
       Stream(i)' = IF Stream(i).playing
                       /\ Stream(i).samplesInBuffer < REFILL_THRESHOLD
                    THEN RefillStreamBuffer(Stream(i), flash)
                    ELSE Stream(i)

\* the phases of an iteration follow one another in the order inputs, frames,
\* refill; the frames end when FramesPerLoop of them are mixed; between the
\* steps of loop() requests only queue
PhasesInOrder ==
  /\ sched'.pc # sched.pc
     => <<sched.pc, sched'.pc>> \in
          {<<"inputs", "frames">>, <<"frames", "refill">>, <<"refill", "inputs">>}
  /\ (sched.pc = "frames" /\ sched'.pc = "refill") => sched'.frames = FramesPerLoop
  /\ ArrivalStep => samplePlayers' = samplePlayers /\ flash' = flash

\* C25 as stated: in every loop iteration all pending trigger and load requests
\* are applied before the first frame of the iteration is mixed, then exactly
\* 32 frames are mixed, then refill is invoked exactly on the voices that are
\* Playing with samplesInBuffer below REFILL_THRESHOLD; no trigger, load or
\* refill step is ever interleaved between the per-voice polls of a frame.
C25_AllPendingApplied ==
  [][/\ PhasesInOrder
     /\ InputsStep => ButtonsApplied /\ sched'.serial = <<>>
     /\ FrameStep => FramePolls
     /\ RefillStep => RefillsBelowThreshold]_vars

\* C25 (amended): in every loop iteration every pending button request and the
\* oldest pending serial request, and no other serial request, are applied
\* before the first frame of the iteration is mixed; then exactly FramesPerLoop
\* frames are mixed; then refill is invoked exactly on the voices that are
\* Playing with samplesInBuffer below REFILL_THRESHOLD; no trigger, load or
\* refill step is interleaved between the per-voice polls of a frame.
C25_LoopOrdering ==
  [][/\ PhasesInOrder
     /\ InputsStep => ButtonsApplied /\ OneCharacterApplied
     /\ FrameStep => FramePolls
     /\ RefillStep => RefillsBelowThreshold]_vars

\* the last of the several frames of an iteration has just been mixed: voice 0,
\* restarted by the head of this iteration, has given one sample to each of
\* them, a character is waiting, and the refill pass comes next
C25_Witness ==
  /\ FramesPerLoop > 1
  /\ last.op = "frame"
  /\ sched.pc = "refill"
  /\ sched.frames = FramesPerLoop
  /\ Stream(0).playing
  /\ Stream(0).samplesPlayed = FramesPerLoop
  /\ last.polled[1] # 0
  /\ sched.serial # <<>>

\* the refill pass has just left voice 0 alone: it is Playing with an open
\* handle, data left in its file and room in its buffer, at the threshold
C25_WitnessAtThreshold ==
  /\ last.op = "refills"
  /\ last.polled[1] = 0
  /\ Stream(0).playing
  /\ Stream(0).flashFile.open
  /\ ~Stream(0).endOfFile
  /\ Stream(0).samplesInBuffer >= REFILL_THRESHOLD
  /\ Stream(0).samplesInBuffer < Stream(0).bufferSize

\* the head of loop() has just read one character and restarted voice 0, and a
\* character received before it ran is still waiting
C25_WitnessSerial ==
  /\ last.op = "inputs"
  /\ last.v = 1
  /\ Stream(0).playing
  /\ Stream(0).samplesPlayed = 0
  /\ sched.serial # <<>>

\* the head of loop() has just restarted voice 0 for its button
C25_WitnessButton ==
  /\ last.op = "inputs"
  /\ last.polled[1] = 1
  /\ Stream(0).playing
  /\ Stream(0).samplesPlayed = 0

\* the refill pass has just refilled voice 0 and left the other voices alone
C25_WitnessRefill ==
  /\ last.op = "refills"
  /\ last.polled = <<1, 0, 0, 0>>
  /\ Stream(0).samplesInBuffer > 0

\* C28: with storage that never fails, assets that hold the samples their
\* headers declare and no load applied to a voice since its trigger (its handle
\* is still open), every frame of loop() finds a sample in the buffer of every
\* Playing voice.
C28_NoUnderrun ==
  [][FrameStep =>
       \A i \in Voices :
         (Stream(i).playing /\ Stream(i).loaded /\ Stream(i).flashFile.open)
           => Stream(i).samplesInBuffer > 0]_vars

====
